---------------------------- MODULE Spec2Model ----------------------------
(***************************************************************************)
(* blankmd virtual filesystem: the persistent store (filesystem/store.ts), *)
(* the tree operations (filesystem/tree.ts), the active-document           *)
(* coordinator (filesystem/index.ts), the sidebar handlers                 *)
(* (filesystem/sidebar.ts), migration and snapshot backup/restore.         *)
(*                                                                         *)
(* Conventions of the model                                                *)
(*  - a node id (crypto.randomUUID()) is a positive integer; ids are       *)
(*    handed out in increasing order and never reused, so that the         *)
(*    insertion order of the nodes object (Object.values) is the order of  *)
(*    the ids.  A node record does not repeat its id: the key is the id.   *)
(*  - a name is a sequence of one-character strings, so that trim,         *)
(*    toLowerCase, lastIndexOf and slice are computed as the code does.    *)
(*  - a document body is one of a few opaque strings; createdAt is left    *)
(*    out of the node records (no operation reads it).                     *)
(***************************************************************************)
EXTENDS Integers, Sequences, FiniteSets, TLC

\* ------------------------------------------------------------------ bounds

\* how many node ids crypto.randomUUID() hands out in one run
MaxIds == 3

\* ------------------------------------------------------------ basic values

\* the null of parentId / activeFileId
NULL == 0

\* an id string that names no node and is never generated
Ghost == MaxIds + 1

DEFAULT_SIDEBAR_WIDTH == 240

UntitledMd == <<"U","n","t","i","t","l","e","d",".","m","d">>

NewFolderName == <<"N","e","w"," ","F","o","l","d","e","r">>

MyNotesMd == <<"M","y"," ","N","o","t","e","s",".","m","d">>

DEFAULT_STORE ==
    [nodes |-> <<>>, content |-> <<>>, activeFileId |-> NULL,
     sidebarWidth |-> DEFAULT_SIDEBAR_WIDTH, sidebarOpen |-> FALSE]

\* ------------------------------------------------------- string primitives

UpperChars == <<"A","B","C","D","E","F","G","H","I","J","K","L","M",
                "N","O","P","Q","R","S","T","U","V","W","X","Y","Z">>

LowerChars == <<"a","b","c","d","e","f","g","h","i","j","k","l","m",
                "n","o","p","q","r","s","t","u","v","w","x","y","z">>

Digits == <<"0","1","2","3","4","5","6","7","8","9">>

\* the characters names are written in
Chars ==
    {UpperChars[i] : i \in 1..26} \cup {LowerChars[i] : i \in 1..26}
        \cup {Digits[i] : i \in 1..10} \cup {" ", "."}

\* the lower-case form of every character
LowerOf ==
    [c \in Chars |->
        IF \E i \in 1..26 : UpperChars[i] = c
        THEN LowerChars[CHOOSE i \in 1..26 : UpperChars[i] = c]
        ELSE c]

LowerChar(c) == LowerOf[c]

\* String.prototype.toLowerCase
toLowerCase(str) == [i \in 1..Len(str) |-> LowerChar(str[i])]

\* String.prototype.trim
RECURSIVE trim(_)
trim(str) ==
    IF str = <<>> THEN <<>>
    ELSE IF Head(str) = " " THEN trim(Tail(str))
    ELSE IF str[Len(str)] = " " THEN trim(SubSeq(str, 1, Len(str) - 1))
    ELSE str

\* str.includes(".")
includesDot(str) == \E i \in 1..Len(str) : str[i] = "."

\* str.lastIndexOf("."), 1-based; only used when includesDot(str)
lastIndexOfDot(str) ==
    CHOOSE i \in 1..Len(str) :
        str[i] = "." /\ \A j \in (i + 1)..Len(str) : str[j] # "."

\* the decimal text of a number, as a template literal produces it
RECURSIVE numberToString(_)
numberToString(n) ==
    IF n < 10 THEN <<Digits[n + 1]>>
    ELSE numberToString(n \div 10) \o <<Digits[(n % 10) + 1]>>

\* ------------------------------------------------------------ small helpers

Range(seq) == {seq[i] : i \in 1..Len(seq)}

MinOf(S) == CHOOSE m \in S : \A x \in S : m <= x

\* the elements of a finite set of ids in increasing (insertion) order
RECURSIVE inOrder(_)
inOrder(S) ==
    IF S = {} THEN <<>> ELSE <<MinOf(S)>> \o inOrder(S \ {MinOf(S)})

Restrict(f, S) == [k \in S |-> f[k]]

\* ------------------------------------------------------------------- store

\* the value JSON.parse returns for the text null
JsonNull == [null |-> TRUE]

\* FsStore.persist: JSON.stringify(this.store) written under the filesystem key
persist(s) == [text |-> s]

\* whether localStorage.setItem throws (QuotaExceededError or another failure)
quotaExceeded(d) == "full" \in DOMAIN d

\* persist whose failed write loses the record
persistToClearing(d, s) ==
    IF quotaExceeded(d) THEN [absent |-> TRUE, full |-> TRUE] ELSE persist(s)

\* persist that never overwrites a record
persistToOnce(d, s) ==
    IF quotaExceeded(d) \/ "text" \in DOMAIN d THEN d ELSE persist(s)

\* FsStore.persist on the storage d: the try writes, the catch warns and returns
persistTo(d, s) == IF quotaExceeded(d) THEN d ELSE persist(s)

\* the filesystem record of the storage, whatever room the storage has left
recordOf(d) == [k \in DOMAIN d \ {"full"} |-> d[k]]

\* FsStore.getNode: undefined is modelled by the caller's membership test
hasNode(s, id) == id \in DOMAIN s.nodes

\* FsStore.setNode
setNode(s, id, node) == [s EXCEPT !.nodes = (id :> node) @@ s.nodes]

\* FsStore.removeNode
removeNode(s, id) ==
    [s EXCEPT !.nodes = Restrict(s.nodes, DOMAIN s.nodes \ {id}),
              !.content = Restrict(s.content, DOMAIN s.content \ {id})]

\* FsStore.getContent
getContent(s, fileId) ==
    IF fileId \in DOMAIN s.content THEN s.content[fileId] ELSE ""

\* FsStore.saveFileContent, t the value of Date.now()
saveFileContent(s, fileId, c, t) ==
    [s EXCEPT !.content = (fileId :> c) @@ s.content,
              !.nodes = IF fileId \in DOMAIN s.nodes /\ s.nodes[fileId].type = "file"
                        THEN [s.nodes EXCEPT ![fileId].updatedAt = t]
                        ELSE s.nodes]

\* FsStore.setActiveFileId
setActiveFileId(s, id) == [s EXCEPT !.activeFileId = id]

\* FsStore.setSidebarWidth
setSidebarWidth(s, w) == [s EXCEPT !.sidebarWidth = w]

\* FsStore.setSidebarOpen
setSidebarOpen(s, open) == [s EXCEPT !.sidebarOpen = open]

\* FsStore.getState: structuredClone, a deep copy
getState(s) == s

\* replaceState keeping the nodes the store had
replaceStateMerging(s, newState) == [newState EXCEPT !.nodes = newState.nodes @@ s.nodes]

\* FsStore.replaceState
replaceState(s, newState) == newState

\* ------------------------------------------------------------------- tree

\* getChildren, as the set of the children's ids
getChildren(ns, parentId) == {k \in DOMAIN ns : ns[k].parentId = parentId}

\* getDescendantIds without the recursion into child folders
getDescendantIdsShallow(ns, folderId) == inOrder(getChildren(ns, folderId))

RECURSIVE getDescendantIds(_, _), descendantsOf(_, _)
\* the loop body of getDescendantIds over the remaining children
descendantsOf(ns, children) ==
    IF children = <<>> THEN <<>>
    ELSE LET child == Head(children)
         IN  <<child>>
             \o (IF ns[child].type = "folder"
                 THEN getDescendantIds(ns, child) ELSE <<>>)
             \o descendantsOf(ns, Tail(children))

\* getDescendantIds
getDescendantIds(ns, folderId) ==
    descendantsOf(ns, inOrder(getChildren(ns, folderId)))

\* whether the calls of getDescendantIds nest deeper than depth: the call
\* for folderId calls itself for every child that is a folder
RECURSIVE recursesBeyond(_, _, _)
recursesBeyond(ns, folderId, depth) ==
    IF depth = 0 THEN TRUE
    ELSE \E child \in getChildren(ns, folderId) :
             /\ ns[child].type = "folder"
             /\ recursesBeyond(ns, child, depth - 1)

\* getDescendantIds(folderId) does not return: calls nested deeper than the
\* number of nodes have come back to a folder they started from, and the
\* recursion goes on until the call stack is exhausted (RangeError)
overflows(ns, folderId) == recursesBeyond(ns, folderId, Cardinality(DOMAIN ns) + 1)

\* the lower-cased names of a set of nodes
lowerNames(ns, ids) == {toLowerCase(ns[k].name) : k \in ids}

\* the while loop of uniqueName
RECURSIVE firstFreeSuffix(_, _, _, _)
firstFreeSuffix(names, stem, ext, i) ==
    IF toLowerCase(stem \o <<" ">> \o numberToString(i) \o ext) \in names
    THEN firstFreeSuffix(names, stem, ext, i + 1)
    ELSE i

\* uniqueName comparing the names as they are spelled
uniqueNameCaseSensitive(ns, baseName, parentId) ==
    LET names == {ns[k].name : k \in getChildren(ns, parentId)}
        ext   == IF includesDot(baseName)
                 THEN SubSeq(baseName, lastIndexOfDot(baseName), Len(baseName))
                 ELSE <<>>
        stem  == IF includesDot(baseName)
                 THEN SubSeq(baseName, 1, lastIndexOfDot(baseName) - 1)
                 ELSE baseName
    IN  IF baseName \notin names THEN baseName
        ELSE stem \o <<" ">>
             \o numberToString(firstFreeSuffix(names, stem, ext, 2)) \o ext

\* str.indexOf("."), 1-based; only used when includesDot(str)
indexOfDot(str) == CHOOSE i \in 1..Len(str) : str[i] = "." /\ \A j \in 1..(i - 1) : str[j] # "."

\* uniqueName taking the extension from the first "." of the name
uniqueNameFirstDot(ns, baseName, parentId) ==
    LET names == lowerNames(ns, getChildren(ns, parentId))
        ext   == IF includesDot(baseName)
                 THEN SubSeq(baseName, indexOfDot(baseName), Len(baseName))
                 ELSE <<>>
        stem  == IF includesDot(baseName)
                 THEN SubSeq(baseName, 1, indexOfDot(baseName) - 1)
                 ELSE baseName
    IN  IF toLowerCase(baseName) \notin names THEN baseName
        ELSE stem \o <<" ">>
             \o numberToString(firstFreeSuffix(names, stem, ext, 2)) \o ext

\* uniqueName
uniqueName(ns, baseName, parentId) ==
    LET names == lowerNames(ns, getChildren(ns, parentId))
        ext   == IF includesDot(baseName)
                 THEN SubSeq(baseName, lastIndexOfDot(baseName), Len(baseName))
                 ELSE <<>>
        stem  == IF includesDot(baseName)
                 THEN SubSeq(baseName, 1, lastIndexOfDot(baseName) - 1)
                 ELSE baseName
    IN  IF toLowerCase(baseName) \notin names THEN baseName
        ELSE stem \o <<" ">>
             \o numberToString(firstFreeSuffix(names, stem, ext, 2)) \o ext

\* createFile; id the fresh uuid, t the value of Date.now()
createFile(s, parentId, name, id, t) ==
    saveFileContent(
        setNode(s, id, [type |-> "file",
                        name |-> uniqueName(s.nodes, name, parentId),
                        parentId |-> parentId,
                        updatedAt |-> t]),
        id, "", t)

\* createFolder
createFolder(s, parentId, name, id) ==
    setNode(s, id, [type |-> "folder",
                    name |-> uniqueName(s.nodes, name, parentId),
                    parentId |-> parentId,
                    collapsed |-> FALSE])

\* renameNode taking the new name as it was typed, without trim()
renameNodeUntrimmed(s, id, newName, t) ==
    IF ~hasNode(s, id) THEN s
    ELSE
    LET node    == s.nodes[id]
        names   == lowerNames(s.nodes, getChildren(s.nodes, node.parentId) \ {id})
        finalName == IF toLowerCase(newName) \in names
                     THEN uniqueName(s.nodes, newName, node.parentId)
                     ELSE newName
        renamed == [node EXCEPT !.name = finalName]
    IN  IF newName = <<>> THEN s
        ELSE setNode(s, id, IF node.type = "file"
                            THEN [renamed EXCEPT !.updatedAt = t]
                            ELSE renamed)

\* renameNode
renameNode(s, id, newName, t) ==
    IF ~hasNode(s, id) THEN s
    ELSE
    LET node    == s.nodes[id]
        trimmed == trim(newName)
        names   == lowerNames(s.nodes, getChildren(s.nodes, node.parentId) \ {id})
        finalName == IF toLowerCase(trimmed) \in names
                     THEN uniqueName(s.nodes, trimmed, node.parentId)
                     ELSE trimmed
        renamed == [node EXCEPT !.name = finalName]
    IN  IF trimmed = <<>> THEN s
        ELSE setNode(s, id, IF node.type = "file"
                            THEN [renamed EXCEPT !.updatedAt = t]
                            ELSE renamed)

\* moveNode refusing only the move of a folder into itself
moveNodeSelfCheckOnly(s, id, newParentId, t) ==
    IF ~hasNode(s, id) THEN s
    ELSE
    LET node  == s.nodes[id]
        moved == [node EXCEPT !.parentId = newParentId]
    IN  IF node.type = "folder" /\ newParentId # NULL /\ newParentId = id
        THEN s
        ELSE setNode(s, id, IF node.type = "file"
                            THEN [moved EXCEPT !.updatedAt = t]
                            ELSE moved)

\* moveNode
moveNode(s, id, newParentId, t) ==
    IF ~hasNode(s, id) THEN s
    ELSE
    LET node  == s.nodes[id]
        moved == [node EXCEPT !.parentId = newParentId]
    IN  IF /\ node.type = "folder"
           /\ newParentId # NULL
           /\ \/ newParentId = id
              \/ newParentId \in Range(getDescendantIds(s.nodes, id))
        THEN s
        ELSE setNode(s, id, IF node.type = "file"
                            THEN [moved EXCEPT !.updatedAt = t]
                            ELSE moved)

\* the ids deleteNode removes, which is also what it returns
idsToRemove(s, id) ==
    IF ~hasNode(s, id) THEN <<>>
    ELSE <<id>> \o (IF s.nodes[id].type = "folder"
                    THEN getDescendantIds(s.nodes, id) ELSE <<>>)

\* the loop of deleteNode calling fsStore.removeNode
RECURSIVE removeAll(_, _)
removeAll(s, ids) ==
    IF ids = <<>> THEN s ELSE removeAll(removeNode(s, Head(ids)), Tail(ids))

\* the remaining file nodes, Object.values(...).filter(type === "file")
remainingFiles(s) == {k \in DOMAIN s.nodes : s.nodes[k].type = "file"}

\* deleteNode picking a new active file whether or not the active one was removed
deleteNodeAlwaysRepairs(s, id) ==
    LET ids == idsToRemove(s, id)
        s1  == removeAll(s, ids)
    IN  IF ids # <<>>
        THEN setActiveFileId(s1, IF remainingFiles(s1) \ {s1.activeFileId} # {}
                                 THEN MinOf(remainingFiles(s1) \ {s1.activeFileId})
                                 ELSE NULL)
        ELSE s1

\* deleteNode choosing the new active file among the files before the removal
deleteNodeRepairsFirst(s, id) ==
    LET ids == idsToRemove(s, id)
        s1  == removeAll(s, ids)
    IN  IF s1.activeFileId # NULL /\ s1.activeFileId \in Range(ids)
        THEN setActiveFileId(s1, IF remainingFiles(s) # {}
                                 THEN MinOf(remainingFiles(s)) ELSE NULL)
        ELSE s1

\* deleteNode: the store it leaves
deleteNode(s, id) ==
    LET ids == idsToRemove(s, id)
        s1  == removeAll(s, ids)
    IN  IF s1.activeFileId # NULL /\ s1.activeFileId \in Range(ids)
        THEN setActiveFileId(s1, IF remainingFiles(s1) # {}
                                 THEN MinOf(remainingFiles(s1)) ELSE NULL)
        ELSE s1


\* which branch of renameNode runs
renameCase(s, id, newName) ==
    IF ~hasNode(s, id) THEN "missing"
    ELSE IF trim(newName) = <<>> THEN "blank"
    ELSE IF toLowerCase(trim(newName)) \in
              lowerNames(s.nodes, getChildren(s.nodes, s.nodes[id].parentId) \ {id})
    THEN "disambiguated"
    ELSE "renamed"

\* which branch of moveNode runs
moveCase(s, id, newParentId) ==
    IF ~hasNode(s, id) THEN "missing"
    ELSE IF /\ s.nodes[id].type = "folder"
            /\ newParentId # NULL
            /\ overflows(s.nodes, id)
    THEN "overflow"
    ELSE IF /\ s.nodes[id].type = "folder"
            /\ newParentId # NULL
            /\ \/ newParentId = id
               \/ newParentId \in Range(getDescendantIds(s.nodes, id))
    THEN "rejected"
    ELSE "moved"

\* which branch of deleteNode runs
deleteCase(s, id) ==
    IF ~hasNode(s, id) THEN "missing"
    ELSE IF s.nodes[id].type = "folder" /\ overflows(s.nodes, id) THEN "overflow"
    ELSE IF s.activeFileId # NULL /\ s.activeFileId \in Range(idsToRemove(s, id))
    THEN "repaired"
    ELSE "deleted"

\* ------------------------------------------------------------------ editor

\* the serialisation of the empty document, what clearContent() leaves
EmptyDoc == "E"

\* the documents the editor can hold, as JSON.stringify(editor.getJSON())
Docs == {EmptyDoc, "x", "y"}

\* the document a stored body that is raw markdown and no JSON ("#x") parses to
markdownParse(c) == "x"

\* getEditorContent: JSON.stringify(editor.getJSON())
getEditorContent(ed) == ed

\* setEditorContent: the document the editor holds afterwards
setEditorContent(c) ==
    IF c = "" THEN EmptyDoc
    ELSE IF c \in Docs THEN c
    ELSE markdownParse(c)

\* the save handler initFilesystem installs
contentSaveHandler(s, c, t) ==
    IF s.activeFileId # NULL THEN saveFileContent(s, s.activeFileId, c, t) ELSE s

\* forceSave: serialise the editor now and hand it to the save handler
forceSave(s, ed, t) == contentSaveHandler(s, getEditorContent(ed), t)

\* --------------------------------------------------------------- migration

\* localStorage.getItem returning null
NoRecord == [absent |-> TRUE]

NoLegacy == "<absent>"

\* the fresh store without the legacy content
freshStoreEmpty(legacyContent, id, t) ==
    [nodes |-> (id :> [type |-> "file",
                       name |-> IF legacyContent \notin {NoLegacy, ""}
                                THEN MyNotesMd ELSE UntitledMd,
                       parentId |-> NULL,
                       updatedAt |-> t]),
     content |-> (id :> ""),
     activeFileId |-> id,
     sidebarWidth |-> DEFAULT_SIDEBAR_WIDTH,
     sidebarOpen |-> FALSE]

\* migrateIfNeeded on a profile whose filesystem key is absent;
\* id the fresh uuid, t the value of Date.now()
freshStore(legacyContent, id, t) ==
    [nodes |-> (id :> [type |-> "file",
                       name |-> IF legacyContent \notin {NoLegacy, ""}
                                THEN MyNotesMd ELSE UntitledMd,
                       parentId |-> NULL,
                       updatedAt |-> t]),
     content |-> (id :> (IF legacyContent = NoLegacy THEN "" ELSE legacyContent)),
     activeFileId |-> id,
     sidebarWidth |-> DEFAULT_SIDEBAR_WIDTH,
     sidebarOpen |-> FALSE]

\* a filesystem key holding text that JSON.parse rejects
GarbageRecord == [garbage |-> TRUE]

\* a filesystem key holding the text null
NullRecord == persist(JsonNull)

\* a filesystem key holding an object that has no nodes and no content
ObjectRecord == persist([sidebarOpen |-> FALSE])

\* migrateIfNeeded building a fresh store whatever the key holds
migrateIfNeededAlwaysFresh(record, legacyContent, id, t) ==
    freshStore(legacyContent, id, t)

\* migrateIfNeeded: the parsed record if the key holds text that parses,
\* else (key absent, or the catch) the fresh store
migrateIfNeeded(record, legacyContent, id, t) ==
    IF "text" \in DOMAIN record THEN record.text
    ELSE freshStore(legacyContent, id, t)

\* ------------------------------------------------------------------- state

VARIABLES
    store,        \* fsStore.store
    durable,      \* localStorage[STORAGE_KEYS.filesystem]
    legacy,       \* localStorage[STORAGE_KEYS.content]
    nextId,       \* the next id crypto.randomUUID() returns
    now,          \* Date.now()
    editor,       \* the editor's document
    saveTimeout,  \* how many debounce timers are pending
    isEditingFile, \* fileState.isEditingFile: the page edits a file of the server
    importing,    \* the snapshot file an import is reading, or NoFile
    download,     \* the last file exportSnapshot offered, or NoFile
    last          \* the last operation, its arguments and what it returned

vars == <<store, durable, legacy, nextId, now, editor, saveTimeout,
          isEditingFile, importing, download, last>>

NoFile == [absent |-> TRUE]

\* the last operation, the branch of its code that ran, and what it returned
Op(op, case, ret) == [op |-> op, case |-> case, ret |-> ret]

\* the editor as createEditor leaves it: contentStorage.load()
initialEditor(legacyContent) ==
    IF legacyContent \in {NoLegacy, ""} THEN EmptyDoc
    ELSE setEditorContent(legacyContent)

\* initFilesystem step 3: load the active file into the editor
loadActiveFile(s, ed) ==
    IF s.activeFileId # NULL /\ getContent(s, s.activeFileId) # ""
    THEN setEditorContent(getContent(s, s.activeFileId))
    ELSE ed

\* whether a parsed value has the five fields of a FileSystemStore
isStoreShaped(v) ==
    {"nodes", "content", "activeFileId", "sidebarWidth", "sidebarOpen"}
        \subseteq DOMAIN v

\* FsStore.load on the storage d: an initial state that is truthy is adopted
\* and persisted; otherwise the key is read and parsed, without a persist
load(d, initial) ==
    IF initial # JsonNull
    THEN [store |-> initial, durable |-> persistTo(d, initial)]
    ELSE [store |-> IF "text" \in DOMAIN d THEN d.text ELSE DEFAULT_STORE,
          durable |-> d]

\* how initFilesystem ends: this.store.activeFileId read off null throws in
\* step 3, Object.values(undefined) throws in renderTree -> getChildren
startupCase(d, legacyContent, id, t) ==
    LET s == load(d, migrateIfNeeded(d, legacyContent, id, t)).store
    IN  IF s = JsonNull \/ "nodes" \notin DOMAIN s THEN "threw"
        ELSE IF "text" \in DOMAIN d THEN "loaded"
        ELSE "migrated"

\* initFilesystem after createEditor: the store, the storage and the editor
initFilesystem(d, legacyContent, id, t) ==
    LET loaded == load(d, migrateIfNeeded(d, legacyContent, id, t))
        ed     == initialEditor(legacyContent)
    IN  [store |-> loaded.store,
         durable |-> loaded.durable,
         editor |-> IF startupCase(d, legacyContent, id, t) = "threw" THEN ed
                    ELSE loadActiveFile(loaded.store, ed)]

\* the state once initFilesystem has run on a profile without a filesystem
\* record: migrateIfNeeded, fsStore.load(initial), the editor load
Init ==
    /\ legacy \in {NoLegacy, "x"}
    /\ store = migrateIfNeeded(NoRecord, legacy, 1, 0)
    /\ durable = persist(store)
    /\ nextId = 2
    /\ now = 0
    /\ editor = loadActiveFile(store, initialEditor(legacy))
    /\ saveTimeout = 0
    /\ isEditingFile = FALSE
    /\ importing = NoFile
    /\ download = NoFile
    /\ last = Op("init", "done", <<>>)

\* what a handler leaves alone besides the store
EditorIdle == UNCHANGED <<legacy, editor, saveTimeout, isEditingFile,
                          importing, download>>

\* every FsStore mutator ends in persist()
Persisted == durable' = IF store' = store THEN durable ELSE persistTo(durable, store')

\* ------------------------------------------- the tree API, any arguments

\* ids a caller can name: the ids of the nodes, and one naming no node (an id
\* whose node was deleted names no node either, and is never handed out again)
KnownIds == DOMAIN store.nodes \cup {Ghost}

ParentArgs == KnownIds \cup {NULL}

\* the parents the sidebar passes to createFile / createFolder
FolderArgs == {k \in DOMAIN store.nodes : store.nodes[k].type = "folder"} \cup {NULL}

\* names a caller passes to createFile / createFolder / renameNode
NameArgs == {<<"a">>, <<"A">>, <<" ">>}

CallCreateFile(parentId, name) ==
    /\ nextId <= MaxIds
    /\ store' = createFile(store, parentId, name, nextId, now)
    /\ nextId' = nextId + 1
    /\ last' = Op("createFile", "created", <<>>)
    /\ Persisted
    /\ UNCHANGED now
    /\ EditorIdle

CallCreateFolder(parentId, name) ==
    /\ nextId <= MaxIds
    /\ store' = createFolder(store, parentId, name, nextId)
    /\ nextId' = nextId + 1
    /\ last' = Op("createFolder", "created", <<>>)
    /\ Persisted
    /\ UNCHANGED now
    /\ EditorIdle

CallRenameNode(id, newName) ==
    /\ store' = renameNode(store, id, newName, now)
    /\ last' = Op("renameNode", renameCase(store, id, newName), <<>>)
    /\ Persisted
    /\ UNCHANGED <<nextId, now>>
    /\ EditorIdle

CallMoveNode(id, newParentId) ==
    /\ store' = IF moveCase(store, id, newParentId) = "overflow" THEN store
                ELSE moveNode(store, id, newParentId, now)
    /\ last' = Op("moveNode", moveCase(store, id, newParentId), <<>>)
    /\ Persisted
    /\ UNCHANGED <<nextId, now>>
    /\ EditorIdle

CallDeleteNode(id) ==
    /\ store' = IF deleteCase(store, id) = "overflow" THEN store
                ELSE deleteNode(store, id)
    /\ last' = Op("deleteNode", deleteCase(store, id),
                  IF deleteCase(store, id) = "overflow" THEN <<>>
                  ELSE idsToRemove(store, id))
    /\ Persisted
    /\ UNCHANGED <<nextId, now>>
    /\ EditorIdle

\* the nodes of the moved folder's own subtree, the moves moveNode must refuse
OwnSubtree(id) ==
    IF store.nodes[id].type = "folder"
    THEN {id} \cup Range(getDescendantIds(store.nodes, id))
    ELSE {}

\* callers that keep to the data model: an id names a node (deleteNode may
\* also get an id that names none), a parent is null or a Folder, and a
\* Folder may be asked into its own subtree
NextTree ==
    \/ \E p \in FolderArgs : CallCreateFile(p, UntitledMd)
    \/ \E p \in FolderArgs : CallCreateFolder(p, NewFolderName)
    \/ \E id \in DOMAIN store.nodes :
          \E p \in FolderArgs \cup OwnSubtree(id) : CallMoveNode(id, p)
    \/ \E id \in KnownIds : CallDeleteNode(id)

InitTree == Init /\ legacy = NoLegacy

SpecTree == InitTree /\ [][NextTree]_vars

\* callers that pass any id and any parent, of a node or of none
NextApi ==
    \/ \E p \in ParentArgs : CallCreateFile(p, UntitledMd)
    \/ \E p \in ParentArgs : CallCreateFolder(p, NewFolderName)
    \/ \E id \in KnownIds : CallRenameNode(id, <<"a">>)
    \/ \E id \in KnownIds, p \in ParentArgs : CallMoveNode(id, p)
    \/ \E id \in KnownIds : CallDeleteNode(id)

SpecApi == InitTree /\ [][NextApi]_vars

\* creating and renaming under null or a Folder, with colliding names
NextNames ==
    \/ \E p \in FolderArgs : CallCreateFile(p, UntitledMd)
    \/ \E p \in FolderArgs : CallCreateFolder(p, <<"A">>)
    \/ \E id \in KnownIds, n \in NameArgs : CallRenameNode(id, n)

SpecNames == InitTree /\ [][NextNames]_vars

\* ------------------------------------------------ active-document coordinator

\* switchFile changing activeFileId before it flushes the editor
switchFileActivatesFirst(s, ed, timer, newId, t) ==
    IF s.activeFileId = newId
    THEN [store |-> s, editor |-> ed, saveTimeout |-> timer]
    ELSE LET s1 == setActiveFileId(s, newId)
             s2 == forceSave(s1, ed, t)
         IN  [store |-> s2,
              editor |-> setEditorContent(getContent(s2, newId)),
              saveTimeout |-> 0]

\* switchFile without the early return for the file that is already active
switchFileAlways(s, ed, timer, newId, t) ==
    LET s1 == forceSave(s, ed, t)
        s2 == setActiveFileId(s1, newId)
    IN  [store |-> s2,
         editor |-> setEditorContent(getContent(s2, newId)),
         saveTimeout |-> 0]

\* switchFile: the store, the editor and the debounce timer it leaves
\* (forceSave flushes now and cancels the pending debounced save)
switchFile(s, ed, timer, newId, t) ==
    IF s.activeFileId = newId
    THEN [store |-> s, editor |-> ed, saveTimeout |-> timer]
    ELSE LET s1 == forceSave(s, ed, t)
             s2 == setActiveFileId(s1, newId)
         IN  [store |-> s2,
              editor |-> setEditorContent(getContent(s2, newId)),
              saveTimeout |-> 0]

\* which branch of switchFile runs: the early return, or the flush with or
\* without edits the store has not seen
switchCase(s, ed, newId) ==
    IF s.activeFileId = newId THEN "same"
    ELSE IF s.activeFileId # NULL
            /\ getEditorContent(ed) # getContent(s, s.activeFileId)
    THEN "flushed"
    ELSE "switched"

\* a handler's result becomes the next state
Becomes(r) ==
    /\ store' = r.store
    /\ editor' = r.editor
    /\ saveTimeout' = r.saveTimeout

\* the ids of a store's File nodes
fileIdsOf(s) == {k \in DOMAIN s.nodes : s.nodes[k].type = "file"}

FileIds == fileIdsOf(store)

\* ---------------------------------------------------------- editor events

\* clearTimeout(saveTimeout): the pending timer, if there is one, is cancelled
clearTimeout(timers) == IF timers > 0 THEN timers - 1 ELSE 0

\* handleContentUpdate starting a timer without cancelling the pending one
handleContentUpdateNoCancel(timers, editing) ==
    IF editing THEN timers ELSE timers + 1

\* handleContentUpdate: the timers pending after an edit; while the page edits
\* a file of the server the pending timer is cancelled and none is started
handleContentUpdate(timers, editing) ==
    IF editing THEN clearTimeout(timers) ELSE clearTimeout(timers) + 1

\* the user edits the document: onUpdate -> handleContentUpdate
EditorUpdate(doc) ==
    /\ doc # editor
    /\ editor' = doc
    /\ saveTimeout' = handleContentUpdate(saveTimeout, isEditingFile)
    /\ last' = Op("edit", IF isEditingFile THEN "unsaved" ELSE "scheduled", <<>>)
    /\ UNCHANGED <<store, durable, legacy, isEditingFile, nextId, now, importing, download>>

\* the debounce timer fires: the save handler gets the serialised document
SaveTimerFires ==
    /\ saveTimeout > 0
    /\ store' = contentSaveHandler(store, getEditorContent(editor), now)
    /\ saveTimeout' = saveTimeout - 1
    /\ last' = Op("save", IF store.activeFileId # NULL THEN "saved" ELSE "noactive", <<>>)
    /\ durable' = IF store.activeFileId # NULL THEN persistTo(durable, store')
                  ELSE durable
    /\ UNCHANGED <<legacy, isEditingFile, nextId, now, editor, importing, download>>

\* -------------------------------------------------------- sidebar handlers

\* a click on a file row
ClickFile(id) ==
    /\ Becomes(switchFile(store, editor, saveTimeout, id, now))
    /\ last' = Op("switchFile", switchCase(store, editor, id), <<>>)
    /\ Persisted
    /\ UNCHANGED <<legacy, isEditingFile, nextId, now, importing, download>>

\* New File, from the header (parentId null) or a context menu
NewFile(parentId) ==
    /\ nextId <= MaxIds
    /\ LET created == createFile(store, parentId, UntitledMd, nextId, now)
           active  == setActiveFileId(created, nextId)
       IN  Becomes(switchFile(active, editor, saveTimeout, nextId, now))
    /\ nextId' = nextId + 1
    /\ last' = Op("newFile", "created", <<>>)
    /\ Persisted
    /\ UNCHANGED <<legacy, isEditingFile, now, importing, download>>

\* New Folder, from the header or a context menu
NewFolder(parentId) ==
    /\ nextId <= MaxIds
    /\ store' = createFolder(store, parentId, NewFolderName, nextId)
    /\ nextId' = nextId + 1
    /\ last' = Op("newFolder", "created", <<>>)
    /\ Persisted
    /\ UNCHANGED now
    /\ EditorIdle

\* Delete from the context menu, confirmed
DeleteConfirmed(id) ==
    /\ LET deleted == deleteNode(store, id)
       IN  Becomes(IF idsToRemove(store, id) # <<>> /\ deleted.activeFileId # NULL
                   THEN switchFile(deleted, editor, saveTimeout,
                                   deleted.activeFileId, now)
                   ELSE [store |-> deleted, editor |-> editor,
                         saveTimeout |-> saveTimeout])
    /\ last' = Op("delete", deleteCase(store, id), idsToRemove(store, id))
    /\ Persisted
    /\ UNCHANGED <<legacy, isEditingFile, nextId, now, importing, download>>

\* ------------------------------------------------------- markdown export

\* editor.storage.markdown.manager.serialize: the markdown of a document
markdownSerialize(doc) == IF doc = EmptyDoc THEN "" ELSE "#" \o doc

\* the try/catch of exportFileAsMarkdown: content that parses as JSON is
\* serialised to markdown, other content is offered as it is
toMarkdown(content) ==
    IF content \in Docs THEN markdownSerialize(content) ELSE content

\* which branch of exportFileAsMarkdown runs
exportCase(s, ed, fileId) ==
    IF ~hasNode(s, fileId) \/ s.nodes[fileId].type # "file" THEN "skipped"
    ELSE IF fileId # s.activeFileId THEN "stored"
    ELSE IF getContent(s, fileId) # getEditorContent(ed) THEN "flushed"
    ELSE "active"

\* exportFileAsMarkdown offering the stored content of the active file too
exportFileAsMarkdownStored(s, ed, timer, fileId, t) ==
    [store |-> s, saveTimeout |-> timer,
     markdown |-> IF exportCase(s, ed, fileId) = "skipped" THEN <<>>
                  ELSE <<toMarkdown(getContent(s, fileId))>>]

\* exportFileAsMarkdown: the store and the timer it leaves, and the body of
\* the file it offers (none when it returns early)
exportFileAsMarkdown(s, ed, timer, fileId, t) ==
    IF exportCase(s, ed, fileId) = "skipped"
    THEN [store |-> s, saveTimeout |-> timer, markdown |-> <<>>]
    ELSE IF fileId = s.activeFileId
    THEN LET s1 == forceSave(s, ed, t)
         IN  [store |-> s1, saveTimeout |-> 0,
              markdown |-> <<toMarkdown(getContent(s1, fileId))>>]
    ELSE [store |-> s, saveTimeout |-> timer,
          markdown |-> <<toMarkdown(getContent(s, fileId))>>]

\* Export as Markdown, from a row's context menu
ExportFile(id) ==
    /\ LET r == exportFileAsMarkdown(store, editor, saveTimeout, id, now)
       IN  /\ store' = r.store
           /\ saveTimeout' = r.saveTimeout
           /\ last' = Op("exportFile", exportCase(store, editor, id), r.markdown)
    /\ Persisted
    /\ UNCHANGED <<legacy, isEditingFile, nextId, now, editor, importing, download>>

\* ---------------------------------------------------------------- snapshot

SNAPSHOT_VERSION == 1

\* JSON.stringify / JSON.parse.  The values of a Store are strings, finite
\* numbers, booleans, null and plain objects of these, which JSON text
\* represents exactly; the text is kept as the value it denotes.
jsonStringify(v) == [json |-> v]

jsonParse(text) == text.json

\* whether JSON.parse returns rather than throws a SyntaxError
parses(text) == "json" \in DOMAIN text

\* exportSnapshot: the text of the file it offers; t is new Date()
exportSnapshot(s, t) ==
    jsonStringify([version |-> SNAPSHOT_VERSION,
                   exportedAt |-> t,
                   store |-> getState(s)])

\* isValidStore; a field of the wrong type is modelled as a missing field,
\* and a node's id is its key
isValidStore(obj) ==
    /\ {"nodes", "content", "activeFileId", "sidebarWidth", "sidebarOpen"}
           \subseteq DOMAIN obj
    /\ \A k \in DOMAIN obj.nodes :
           /\ {"type", "name"} \subseteq DOMAIN obj.nodes[k]
           /\ obj.nodes[k].type \in {"file", "folder"}

\* the validation of importSnapshot's change listener
isValidSnapshot(snapshot) ==
    /\ "version" \in DOMAIN snapshot
    /\ snapshot.version # 0
    /\ "store" \in DOMAIN snapshot
    /\ isValidStore(snapshot.store)

\* which branch of the change listener runs; confirm is the user's answer.
\* JSON.parse throwing, and snapshot.version read off null, end in the catch.
importCase(text, confirm) ==
    IF ~parses(text) \/ jsonParse(text) = JsonNull THEN "unreadable"
    ELSE IF ~isValidSnapshot(jsonParse(text)) THEN "invalid"
    ELSE IF ~confirm THEN "declined"
    ELSE "replaced"

\* the Restore button's onComplete: reload the active file
restoreCompleted(s, ed, timer, t) ==
    IF s.activeFileId # NULL
    THEN switchFile(s, ed, timer, s.activeFileId, t)
    ELSE [store |-> s, editor |-> ed, saveTimeout |-> timer]

\* the change listener replacing the store whatever the user answers
importSnapshotUnconfirmed(s, ed, timer, text, confirm, t) ==
    IF importCase(text, TRUE) = "replaced"
    THEN restoreCompleted(replaceState(s, jsonParse(text).store), ed, timer, t)
    ELSE [store |-> s, editor |-> ed, saveTimeout |-> timer]

\* importSnapshot's change listener once file.text() has resolved
importSnapshot(s, ed, timer, text, confirm, t) ==
    IF importCase(text, confirm) = "replaced"
    THEN restoreCompleted(replaceState(s, jsonParse(text).store), ed, timer, t)
    ELSE [store |-> s, editor |-> ed, saveTimeout |-> timer]

\* ------------------------------------------------- backup files on disk

BackupNodes ==
    (1 :> [type |-> "file", name |-> UntitledMd, parentId |-> NULL, updatedAt |-> 0])

BackupFile(s) == jsonStringify([version |-> SNAPSHOT_VERSION, exportedAt |-> 0, store |-> s])

\* a well-formed backup whose body is raw markdown
BackupOk ==
    BackupFile([nodes |-> BackupNodes, content |-> (1 :> "#x"), activeFileId |-> 1,
                sidebarWidth |-> DEFAULT_SIDEBAR_WIDTH, sidebarOpen |-> FALSE])

\* a backup whose activeFileId names no node
BackupDangling ==
    BackupFile([nodes |-> BackupNodes, content |-> (1 :> "x"), activeFileId |-> Ghost,
                sidebarWidth |-> DEFAULT_SIDEBAR_WIDTH, sidebarOpen |-> FALSE])

\* a backup with a content entry for an id that is no node
BackupOrphan ==
    BackupFile([nodes |-> BackupNodes, content |-> (1 :> "x") @@ (2 :> "y"),
                activeFileId |-> 1,
                sidebarWidth |-> DEFAULT_SIDEBAR_WIDTH, sidebarOpen |-> FALSE])

\* a backup whose store has no content
BackupNoContent ==
    BackupFile([nodes |-> BackupNodes, activeFileId |-> 1,
                sidebarWidth |-> DEFAULT_SIDEBAR_WIDTH, sidebarOpen |-> FALSE])

BackupFiles == {BackupOk, BackupDangling, BackupOrphan, BackupNoContent}

\* a file that is no JSON text
BackupGarbage == [garbage |-> TRUE]

\* a file holding the JSON text null
BackupNull == jsonStringify(JsonNull)

\* a record without a version
BackupNoVersion ==
    jsonStringify([exportedAt |-> 0,
                   store |-> [nodes |-> BackupNodes, content |-> (1 :> "x"),
                              activeFileId |-> 1,
                              sidebarWidth |-> DEFAULT_SIDEBAR_WIDTH,
                              sidebarOpen |-> FALSE]])

\* a record with a node that has no name
BackupBadNode ==
    BackupFile([nodes |-> (1 :> [type |-> "file", parentId |-> NULL, updatedAt |-> 0]),
                content |-> (1 :> "x"), activeFileId |-> 1,
                sidebarWidth |-> DEFAULT_SIDEBAR_WIDTH, sidebarOpen |-> FALSE])

\* a record whose activeFileId is neither null nor a string
BackupBadActive ==
    BackupFile([nodes |-> BackupNodes, content |-> (1 :> "x"),
                sidebarWidth |-> DEFAULT_SIDEBAR_WIDTH, sidebarOpen |-> FALSE])

\* files the import must refuse
RefusedFiles ==
    {BackupGarbage, BackupNull, BackupNoVersion, BackupNoContent,
     BackupBadNode, BackupBadActive}

\* the ids a store mentions; a fresh uuid is none of them
MaxOf(S) == CHOOSE m \in S : \A x \in S : m >= x

mentionedIds(s) ==
    ((DOMAIN s.nodes \cup DOMAIN s.content \cup {s.activeFileId}) \ {Ghost})
        \cup {NULL}

\* ------------------------------------------------------- backup / restore

\* Backup All
ExportSnapshot ==
    /\ download' = exportSnapshot(store, now)
    /\ last' = Op("export", "done", <<>>)
    /\ UNCHANGED <<store, durable, legacy, isEditingFile, nextId, now, editor, saveTimeout, importing>>

\* Restore: the user picks a file and file.text() is awaited
ImportStart(text) ==
    /\ importing = NoFile
    /\ importing' = text
    /\ last' = Op("importStart", "reading", <<>>)
    /\ UNCHANGED <<store, durable, legacy, isEditingFile, nextId, now, editor, saveTimeout, download>>

\* file.text() resolves and the rest of the change listener runs; the record
\* of the import keeps the operation that ran last while the file was read
ImportComplete(confirm) ==
    /\ importing # NoFile
    /\ Becomes(importSnapshot(store, editor, saveTimeout, importing, confirm, now))
    /\ importing' = NoFile
    /\ nextId' = IF nextId > MaxOf(mentionedIds(store')) THEN nextId
                 ELSE MaxOf(mentionedIds(store')) + 1
    /\ last' = Op("import", importCase(importing, confirm), <<last.op>>)
    /\ Persisted
    /\ UNCHANGED <<legacy, isEditingFile, now, download>>

\* ------------------------------------------------------ the application

\* editing, saving and the sidebar's tree handlers
Next ==
    \/ \E doc \in Docs : EditorUpdate(doc)
    \/ SaveTimerFires
    \/ \E id \in FileIds : ClickFile(id)
    \/ \E p \in FolderArgs : NewFile(p)
    \/ \E p \in FolderArgs : NewFolder(p)
    \/ \E id \in DOMAIN store.nodes : DeleteConfirmed(id)

Spec == Init /\ [][Next]_vars

\* editing, saving, files at the root, and Restore from a backup file on disk
NextRestore ==
    \/ \E doc \in Docs : EditorUpdate(doc)
    \/ SaveTimerFires
    \/ \E id \in FileIds : ClickFile(id)
    \/ NewFile(NULL)
    \/ \E id \in DOMAIN store.nodes : DeleteConfirmed(id)
    \/ \E text \in BackupFiles : ImportStart(text)
    \/ \E confirm \in BOOLEAN : ImportComplete(confirm)

SpecRestore == Init /\ [][NextRestore]_vars

\* the sidebar toggle button / close button
SetSidebarOpen(open) ==
    /\ store.sidebarOpen # open
    /\ store' = setSidebarOpen(store, open)
    /\ last' = Op("sidebar", "done", <<>>)
    /\ Persisted
    /\ UNCHANGED <<nextId, now>>
    /\ EditorIdle

\* the resizer's mouseup: the width was clamped by Math.max(180, Math.min(500, ..))
ResizeSidebar(width) ==
    /\ store.sidebarWidth # width
    /\ store' = setSidebarWidth(store, width)
    /\ last' = Op("resize", "done", <<>>)
    /\ Persisted
    /\ UNCHANGED <<nextId, now>>
    /\ EditorIdle

\* Backup All, then Restore from the file it offered
NextSnapshot ==
    \/ EditorUpdate("x")
    \/ SaveTimerFires
    \/ NewFile(NULL)
    \/ \E open \in BOOLEAN : SetSidebarOpen(open)
    \/ ResizeSidebar(180)
    \/ ExportSnapshot
    \/ download # NoFile /\ ImportStart(download)
    \/ \E confirm \in BOOLEAN : ImportComplete(confirm)

SpecSnapshot == InitTree /\ [][NextSnapshot]_vars

\* a page load: createEditor, then initFilesystem; timers and a pending import
\* of the page before are gone; the record of the load keeps what ran before it
Startup ==
    /\ "text" \in DOMAIN durable \/ nextId <= MaxIds
    /\ LET r == initFilesystem(durable, legacy, nextId, now)
       IN  /\ store' = r.store
           /\ durable' = r.durable
           /\ editor' = r.editor
    /\ saveTimeout' = 0
    /\ importing' = NoFile
    /\ nextId' = IF "text" \in DOMAIN durable THEN nextId ELSE nextId + 1
    /\ last' = Op("startup", startupCase(durable, legacy, nextId, now), <<last.op>>)
    /\ UNCHANGED <<legacy, isEditingFile, now, download>>

\* the filesystem records a profile can hold before the page loads; the
\* well-formed one is the record of an earlier session
ProfileRecords ==
    {NoRecord, GarbageRecord, NullRecord, ObjectRecord,
     persist(freshStore("y", 1, 0)),
     [absent |-> TRUE, full |-> TRUE]}

\* the module as constructed, before initFilesystem
InitProfile ==
    /\ durable \in ProfileRecords
    /\ legacy \in {NoLegacy, "", "x"}
    /\ store = DEFAULT_STORE
    /\ nextId = IF isStoreShaped(migrateIfNeeded(durable, legacy, 1, 0))
                    /\ "text" \in DOMAIN durable
                THEN 2 ELSE 1
    /\ now = 0
    /\ editor = EmptyDoc
    /\ saveTimeout = 0
    /\ isEditingFile = FALSE
    /\ importing = NoFile
    /\ download = NoFile
    /\ last = Op("construct", "done", <<>>)

\* initFilesystem has returned
Running == last.op # "construct" /\ last.case # "threw"

\* page loads and reloads, with editing, saving and files at the root
NextStartup ==
    \/ Startup
    \/ Running /\ EditorUpdate("x")
    \/ Running /\ SaveTimerFires
    \/ Running /\ NewFile(NULL)
    \/ Running /\ \E id \in DOMAIN store.nodes : DeleteConfirmed(id)

SpecStartup == InitProfile /\ [][NextStartup]_vars

\* the storage runs out of room: setItem throws from now on
QuotaExceeded ==
    /\ ~quotaExceeded(durable)
    /\ durable' = [k \in DOMAIN durable \cup {"full"} |->
                      IF k = "full" THEN TRUE ELSE durable[k]]
    /\ UNCHANGED <<store, legacy, isEditingFile, nextId, now, editor, saveTimeout,
                   importing, download, last>>

\* room is made: setItem succeeds again
QuotaFreed ==
    /\ quotaExceeded(durable)
    /\ durable' = recordOf(durable)
    /\ UNCHANGED <<store, legacy, isEditingFile, nextId, now, editor, saveTimeout,
                   importing, download, last>>

\* the application on a storage whose writes fail at times
NextQuota ==
    \/ QuotaExceeded
    \/ QuotaFreed
    \/ Running /\ EditorUpdate("x")
    \/ Running /\ SaveTimerFires
    \/ Running /\ NewFile(NULL)
    \/ Running /\ \E id \in DOMAIN store.nodes : DeleteConfirmed(id)
    \/ Running /\ ImportStart(BackupOk)
    \/ Running /\ ImportComplete(TRUE)
    \/ Startup

SpecQuota == InitTree /\ [][NextQuota]_vars

\* Restore of files the import refuses and of files it accepts, while files
\* are edited, saved, created, switched and deleted
ImportFiles == RefusedFiles \cup {BackupOk, BackupOrphan}

NextImport ==
    \/ EditorUpdate("x")
    \/ SaveTimerFires
    \/ \E id \in FileIds : ClickFile(id)
    \/ NewFile(NULL)
    \/ \E id \in DOMAIN store.nodes : DeleteConfirmed(id)
    \/ \E text \in ImportFiles : ImportStart(text)
    \/ \E confirm \in BOOLEAN : ImportComplete(confirm)

SpecImport == InitTree /\ [][NextImport]_vars

\* the page loaded, editing the browser's files or a file of the server
InitDebounce ==
    /\ legacy \in {NoLegacy, "x"}
    /\ store = migrateIfNeeded(NoRecord, legacy, 1, 0)
    /\ durable = persist(store)
    /\ nextId = 2
    /\ now = 0
    /\ editor = loadActiveFile(store, initialEditor(legacy))
    /\ saveTimeout = 0
    /\ isEditingFile \in BOOLEAN
    /\ importing = NoFile
    /\ download = NoFile
    /\ last = Op("init", "done", <<>>)

\* editing with the debounced save, while files are created, switched and deleted
NextDebounce ==
    \/ \E doc \in Docs : EditorUpdate(doc)
    \/ SaveTimerFires
    \/ \E id \in FileIds : ClickFile(id)
    \/ NewFile(NULL)
    \/ \E id \in DOMAIN store.nodes : DeleteConfirmed(id)

\* a pending timer that nothing cancels fires: setTimeout runs its callback
SpecDebounce == InitDebounce /\ [][NextDebounce]_vars /\ WF_vars(SaveTimerFires)

\* a backup in which two Folders name each other as parent
BackupCycle ==
    BackupFile([nodes |-> (1 :> [type |-> "folder", name |-> NewFolderName,
                                 parentId |-> 2, collapsed |-> FALSE])
                          @@ (2 :> [type |-> "folder", name |-> NewFolderName,
                                    parentId |-> 1, collapsed |-> FALSE]),
                content |-> <<>>, activeFileId |-> NULL,
                sidebarWidth |-> DEFAULT_SIDEBAR_WIDTH, sidebarOpen |-> FALSE])

\* a backup in which a Folder's parentId is its own id
BackupSelfParent ==
    BackupFile([nodes |-> (1 :> [type |-> "folder", name |-> NewFolderName,
                                 parentId |-> 1, collapsed |-> FALSE]),
                content |-> <<>>, activeFileId |-> NULL,
                sidebarWidth |-> DEFAULT_SIDEBAR_WIDTH, sidebarOpen |-> FALSE])

\* Restore of well-formed and of cyclic backups, and callers of the tree
\* operations on whatever the store then holds
NextCyclic ==
    \/ \E text \in {BackupOk, BackupCycle, BackupSelfParent} : ImportStart(text)
    \/ ImportComplete(TRUE)
    \/ \E p \in FolderArgs : CallCreateFile(p, UntitledMd)
    \/ \E p \in FolderArgs : CallCreateFolder(p, NewFolderName)
    \/ \E id \in DOMAIN store.nodes, p \in FolderArgs : CallMoveNode(id, p)
    \/ \E id \in DOMAIN store.nodes : CallDeleteNode(id)

SpecCyclic == InitTree /\ [][NextCyclic]_vars

\* the names callers ask for: with one extension, with two dots, with none
BaseNames == {UntitledMd, <<"a", ".", "b", ".", "c">>, <<"A">>, <<"a">>}

\* creating files and folders under null or a Folder, by the names asked for
NextSuffix ==
    \/ \E p \in FolderArgs, n \in BaseNames : CallCreateFile(p, n)
    \/ \E p \in FolderArgs, n \in BaseNames : CallCreateFolder(p, n)
    \/ \E id \in DOMAIN store.nodes : CallDeleteNode(id)

SpecSuffix == InitTree /\ [][NextSuffix]_vars

\* a backup with a File and no active file
BackupNoActive ==
    BackupFile([nodes |-> BackupNodes, content |-> (1 :> "x"), activeFileId |-> NULL,
                sidebarWidth |-> DEFAULT_SIDEBAR_WIDTH, sidebarOpen |-> FALSE])

\* the sidebar's actions, and Restore of backups with and without an active file
NextReady ==
    \/ \E id \in FileIds : ClickFile(id)
    \/ \E p \in FolderArgs : NewFile(p)
    \/ \E p \in FolderArgs : NewFolder(p)
    \/ \E id \in DOMAIN store.nodes : DeleteConfirmed(id)
    \/ \E text \in {BackupOk, BackupNoActive} : ImportStart(text)
    \/ ImportComplete(TRUE)

SpecReady == InitTree /\ [][NextReady]_vars

\* editing and saving, with files and folders exported as markdown
NextExport ==
    \/ \E doc \in Docs : EditorUpdate(doc)
    \/ SaveTimerFires
    \/ \E id \in FileIds : ClickFile(id)
    \/ NewFile(NULL)
    \/ NewFolder(NULL)
    \/ \E id \in DOMAIN store.nodes : ExportFile(id)

SpecExport == Init /\ [][NextExport]_vars

\* the names typed into the inline rename: padded with blanks, blank, empty
RenameArgs == {<<" ", "A", " ">>, <<" ">>, <<>>}

\* files and folders named "a", renamed by ids of nodes and of none
NextRename ==
    \/ \E p \in FolderArgs : CallCreateFile(p, <<"a">>)
    \/ CallCreateFolder(NULL, <<"a">>)
    \/ \E id \in KnownIds, n \in RenameArgs : CallRenameNode(id, n)

SpecRename == InitTree /\ [][NextRename]_vars

\* ------------------------------------------------------------------ claims

\* C1: switchFile(B) while File A is active (A # B) writes the editor's
\* document to content[A], leaves B's stored content as it was, makes B the
\* active file and loads B's stored content into the editor: the flush
\* comes before the change of activeFileId and before the load.
C1_SwitchFlushesThenLoads ==
    [][\A b \in FileIds :
          (/\ ClickFile(b)
           /\ store.activeFileId \in FileIds
           /\ store.activeFileId # b)
          => /\ getContent(store', store.activeFileId) = getEditorContent(editor)
             /\ store'.activeFileId = b
             /\ getContent(store', b) = getContent(store, b)
             /\ editor' = setEditorContent(getContent(store', b))]_vars

\* a switch away from a file whose latest edits the store had not seen
C1_Witness ==
    /\ last = Op("switchFile", "flushed", <<>>)
    /\ store.activeFileId \in FileIds

\* C2: every change of activeFileId from one File to another flushes the
\* editor to the File that was active and loads the newly active File's
\* content into the editor.
C2_EveryActiveChangeFlushesThenLoads ==
    [][(/\ store'.activeFileId # store.activeFileId
        /\ store.activeFileId \in FileIds
        /\ store'.activeFileId \in fileIdsOf(store'))
       => /\ editor' = setEditorContent(getContent(store', store'.activeFileId))
          /\ hasNode(store', store.activeFileId)
                => getContent(store', store.activeFileId) = getEditorContent(editor)]_vars

\* C3: in every reachable state the keys of content are exactly the ids of
\* the File nodes.
C3_ContentKeysAreFileIds == DOMAIN store.content = FileIds

\* the nodes with a given parent whose names are equal up to case
sameNameSiblings(ns) ==
    {pair \in (DOMAIN ns) \X (DOMAIN ns) :
        /\ pair[1] # pair[2]
        /\ ns[pair[1]].parentId = ns[pair[2]].parentId
        /\ toLowerCase(ns[pair[1]].name) = toLowerCase(ns[pair[2]].name)}

\* C4: after any sequence of createFile, createFolder and renameNode, no two
\* nodes with the same parentId have names that are equal up to case, files
\* and folders alike.
C4_SiblingNamesUnique == sameNameSiblings(store.nodes) = {}

\* a rename to a sibling's name, up to case, between a file and a folder
C4_Witness ==
    /\ last = Op("renameNode", "disambiguated", <<>>)
    /\ \E i, j \in DOMAIN store.nodes :
          /\ store.nodes[i].type = "file"
          /\ store.nodes[j].type = "folder"
          /\ store.nodes[i].parentId = store.nodes[j].parentId

\* the ancestors of node k, following parentId at most n times
RECURSIVE ancestorsOf(_, _, _)
ancestorsOf(ns, k, n) ==
    IF n = 0 \/ k \notin DOMAIN ns \/ ns[k].parentId = NULL THEN {}
    ELSE {ns[k].parentId} \cup ancestorsOf(ns, ns[k].parentId, n - 1)

ancestors(ns, k) == ancestorsOf(ns, k, Cardinality(DOMAIN ns))

\* the transitive descendants of node f
transitiveDescendants(ns, f) == {k \in DOMAIN ns : f \in ancestors(ns, k)}

\* every parent is null or a Folder of the store, and no node is its own ancestor
TreeShaped(ns) ==
    \A k \in DOMAIN ns :
        /\ \/ ns[k].parentId = NULL
           \/ /\ ns[k].parentId \in DOMAIN ns
              /\ ns[ns[k].parentId].type = "folder"
        /\ k \notin ancestors(ns, k)

\* C5: deleteNode(F) on a Folder F of a tree-shaped store with N transitive
\* descendants returns N+1 distinct ids, exactly F and its descendants,
\* removes exactly these from nodes and leaves no content entry for them.
C5_CascadeDelete ==
    [][\A f \in DOMAIN store.nodes :
          (/\ CallDeleteNode(f)
           /\ store.nodes[f].type = "folder"
           /\ TreeShaped(store.nodes))
          => LET D == transitiveDescendants(store.nodes, f)
                 removed == last'.ret
             IN  /\ Len(removed) = Cardinality(D) + 1
                 /\ Cardinality(Range(removed)) = Len(removed)
                 /\ Range(removed) = D \cup {f}
                 /\ DOMAIN store'.nodes = DOMAIN store.nodes \ (D \cup {f})
                 /\ DOMAIN store'.content = DOMAIN store.content \ (D \cup {f})
                 /\ \A k \in DOMAIN store'.nodes : store'.nodes[k] = store.nodes[k]]_vars

\* a folder deleted together with a descendant that is not its child
C5_Witness ==
    /\ last.op = "deleteNode"
    /\ Len(last.ret) >= 3
    /\ Range(last.ret) \cap DOMAIN store.nodes = {}

\* C6: moveNode(F, T) for a Folder F and T either F or an id of
\* getDescendantIds(F) changes nothing: nodes, content and activeFileId stay
\* as they were.
C6_CycleMoveIsNoOp ==
    [][\A f \in DOMAIN store.nodes :
          \A target \in {f} \cup Range(getDescendantIds(store.nodes, f)) :
              (CallMoveNode(f, target) /\ store.nodes[f].type = "folder")
              => /\ store'.nodes = store.nodes
                 /\ store'.content = store.content
                 /\ store'.activeFileId = store.activeFileId]_vars

\* a refused move, with a folder that has a descendant
C6_Witness ==
    /\ last = Op("moveNode", "rejected", <<>>)
    /\ \E f \in DOMAIN store.nodes :
          /\ store.nodes[f].type = "folder"
          /\ getDescendantIds(store.nodes, f) # <<>>

\* C7: when deleteNode removes the active File, itself or with a deleted
\* ancestor Folder, activeFileId afterwards is the id of a File still in
\* nodes if any File remains, and null if none does.
C7_ActiveFileRepair ==
    [][\A id \in DOMAIN store.nodes :
          (/\ CallDeleteNode(id)
           /\ store.activeFileId \in FileIds
           /\ \/ store.activeFileId = id
              \/ id \in ancestors(store.nodes, store.activeFileId))
          => IF fileIdsOf(store') # {}
             THEN store'.activeFileId \in fileIdsOf(store')
             ELSE store'.activeFileId = NULL]_vars

\* the active file went with its folder and another file took over
C7_Witness ==
    /\ last.op = "deleteNode"
    /\ last.case = "repaired"
    /\ Len(last.ret) >= 2
    /\ store.activeFileId \in FileIds

\* C8: in every reachable state activeFileId is null or the id of a File
\* node of nodes.
C8_ActiveFileExists ==
    store.activeFileId = NULL \/ store.activeFileId \in FileIds

\* C9: in every state reachable by createFile, createFolder, renameNode,
\* moveNode and deleteNode with any arguments, every parentId is null or the
\* id of a Folder node of nodes.
C9_ParentIsNullOrFolder ==
    \A k \in DOMAIN store.nodes :
        \/ store.nodes[k].parentId = NULL
        \/ /\ store.nodes[k].parentId \in DOMAIN store.nodes
           /\ store.nodes[store.nodes[k].parentId].type = "folder"

\* C10: the file exportSnapshot offers holds the store as it is and passes
\* the import's validation, and a confirmed import of a file leaves the live
\* store equal to the store the file holds, in nodes, content, activeFileId,
\* sidebarWidth and sidebarOpen: export followed by import reproduces the store.
C10_SnapshotRoundTrip ==
    [][/\ ExportSnapshot
          => /\ isValidSnapshot(jsonParse(download'))
             /\ jsonParse(download').store = store
       /\ ImportComplete(TRUE)
          => /\ last'.case = "replaced"
             /\ \A field \in {"nodes", "content", "activeFileId",
                              "sidebarWidth", "sidebarOpen"} :
                    store'[field] = jsonParse(importing).store[field]]_vars

\* a restore of an exported file with two files and the sidebar open, while
\* the editor holds edits the restored store has not
C10_Witness ==
    /\ last.op = "import"
    /\ last.case = "replaced"
    /\ download # NoFile
    /\ store = jsonParse(download).store
    /\ Cardinality(DOMAIN store.nodes) >= 2
    /\ store.sidebarOpen
    /\ getEditorContent(editor) # getContent(store, store.activeFileId)

\* C11: an import of a file that does not parse, has no version or fails
\* isValidStore, or an import the user declines, leaves the live store, the
\* durable record and the editor as they were, does not reach onComplete and
\* ends in one of the handler's own exits.
C11_RefusedImportChangesNothing ==
    [][\A confirm \in BOOLEAN :
          (/\ ImportComplete(confirm)
           /\ importing \in RefusedFiles \/ ~confirm)
          => /\ store' = store
             /\ durable' = durable
             /\ editor' = editor
             /\ saveTimeout' = saveTimeout
             /\ last'.case \in {"unreadable", "invalid", "declined"}]_vars

\* a refused record, with more in the store than the record would have brought
C11_Witness ==
    /\ last.op = "import"
    /\ last.case = "invalid"
    /\ Cardinality(DOMAIN store.nodes) >= 2
    /\ durable = persist(store)

\* C12: operations run normally while an import waits for its file, and a
\* confirmed import of a valid record then replaces the store wholesale: the
\* store, and the durable record, are the record's store exactly.
C12_ImportOverwritesWhatHappenedMeanwhile ==
    [][(/\ ImportComplete(TRUE)
        /\ importing \in ImportFiles \ RefusedFiles)
       => /\ store' = jsonParse(importing).store
          /\ durable' = persist(jsonParse(importing).store)]_vars

\* a file created while the import was reading is gone after the import
C12_Witness ==
    /\ last = Op("import", "replaced", <<"newFile">>)
    /\ DOMAIN store.nodes = {1}
    /\ nextId > 2

\* C13: a page load on a profile without a filesystem record gives a store
\* with exactly one node, a File at the root, named "My Notes.md" and holding
\* the legacy content when that is a non-empty string, named "Untitled.md"
\* and empty when there is no legacy content; that File is active, content
\* has no other entry, and the legacy record stays as it was.
C13_MigrationWrapsLegacyContent ==
    [][(/\ Startup
        /\ "absent" \in DOMAIN durable
        /\ legacy # "")
       => /\ DOMAIN store'.nodes = {nextId}
          /\ store'.nodes[nextId].type = "file"
          /\ store'.nodes[nextId].parentId = NULL
          /\ store'.nodes[nextId].name =
                IF legacy = NoLegacy THEN UntitledMd ELSE MyNotesMd
          /\ DOMAIN store'.content = {nextId}
          /\ store'.content[nextId] = IF legacy = NoLegacy THEN "" ELSE legacy
          /\ store'.activeFileId = nextId
          /\ legacy' = legacy]_vars

\* the first page load of a profile that had legacy content
C13_Witness ==
    /\ last = Op("startup", "migrated", <<"construct">>)
    /\ legacy = "x"
    /\ store.activeFileId \in DOMAIN store.nodes
    /\ store.nodes[store.activeFileId].name = MyNotesMd
    /\ getContent(store, store.activeFileId) = "x"

\* C14 as stated: a page load right after a page load that produced a store
\* gives the same store and creates no File.
C14_SecondStartupChangesNothing ==
    [][(/\ Startup
        /\ last.op = "startup"
        /\ last.case # "threw")
       => /\ store' = store
          /\ nextId' = nextId]_vars

\* C14, amended: a page load right after a page load that produced a store
\* and wrote it under the filesystem key gives the same store, creates no
\* File and leaves the record as it is.
C14_SecondStartupReadsTheRecord ==
    [][(/\ Startup
        /\ last.op = "startup"
        /\ last.case # "threw"
        /\ "text" \in DOMAIN durable)
       => /\ store' = store
          /\ nextId' = nextId
          /\ durable' = durable]_vars

\* a second page load in a row, on a profile migrated from legacy content
C14_Witness ==
    /\ last = Op("startup", "loaded", <<"startup">>)
    /\ legacy = "x"
    /\ durable = persist(store)
    /\ getContent(store, store.activeFileId) = "x"

\* C15: whatever the filesystem key holds, a page load ends without an
\* uncaught error and with a store that has nodes, content and activeFileId.
C15_StartupEndsWithAStore ==
    last.op = "startup" => last.case # "threw" /\ isStoreShaped(store)

\* C16: while the storage refuses writes, every handler still returns, the
\* in-memory store takes the new state (the saved content, the created File,
\* the removal, the restored or loaded store), the durable record keeps the
\* value it had, and a step that mutates nothing writes nothing.
C16_FailedWriteIsNotFatal ==
    [][quotaExceeded(durable)
       => /\ store' # store => durable' = durable
          /\ last'.case # "threw"
          /\ (SaveTimerFires /\ store.activeFileId # NULL)
                => /\ getContent(store', store.activeFileId) = getEditorContent(editor)
                   /\ durable' = durable
          /\ NewFile(NULL)
                => /\ nextId \in fileIdsOf(store')
                   /\ store'.activeFileId = nextId
          /\ \A id \in DOMAIN store.nodes :
                DeleteConfirmed(id) => id \notin DOMAIN store'.nodes
          /\ ImportComplete(TRUE) => store' = jsonParse(importing).store
          /\ Startup => store' = durable.text /\ durable' = durable
          /\ (store' = store /\ ~SaveTimerFires)
                => recordOf(durable') = recordOf(durable)]_vars

\* a File created while the storage was full: in memory, not in the record
C16_Witness ==
    /\ quotaExceeded(durable)
    /\ last.op = "newFile"
    /\ recordOf(durable) # persist(store)
    /\ DOMAIN recordOf(durable).text.nodes # DOMAIN store.nodes

\* the durable record is the serialization of the in-memory store
agrees(d, s) == "text" \in DOMAIN d /\ d.text = s

\* C17: when a handler has changed the store and the storage takes writes,
\* the durable record is the serialization of the whole in-memory store; the
\* agreement is kept by every step while writes succeed, and the first
\* successful persist after a failed write restores it.
C17_DurableAgreesWithMemory ==
    [][/\ (store' # store /\ ~quotaExceeded(durable))
          => agrees(durable', store')
       /\ (agrees(durable, store) /\ ~quotaExceeded(durable'))
          => agrees(durable', store')
       /\ (SaveTimerFires /\ store.activeFileId # NULL /\ ~quotaExceeded(durable))
          => agrees(durable', store')]_vars

\* the storage has room again after a write failed: the record is behind the
\* store until the next persist
C17_Witness ==
    /\ ~quotaExceeded(durable)
    /\ ~agrees(durable, store)
    /\ Running
    /\ saveTimeout > 0

\* the stored content of the active File is the document d
savedAs(d) ==
    /\ store.activeFileId # NULL
    /\ getContent(store, store.activeFileId) = getEditorContent(d)

\* the pending timer goes away: it fires, or a flush cancels it
TimerGoes == saveTimeout > 0 /\ saveTimeout' = 0

C19_GetDescendantIdsTerminates ==
    /\ \A id \in DOMAIN store.nodes :
           store.nodes[id].type = "folder" => ~overflows(store.nodes, id)
    /\ last.case # "overflow"

\* some node under parent p has the name n, up to case
taken(ns, p, n) ==
    \E k \in DOMAIN ns :
        ns[k].parentId = p /\ toLowerCase(ns[k].name) = toLowerCase(n)

\* b cut after its first k characters leaves the part from b's last "." on,
\* or nothing when b has no "."
cutsAtExtension(b, k) ==
    LET ext == SubSeq(b, k + 1, Len(b))
    IN  IF "." \in Range(b)
        THEN ext # <<>> /\ Head(ext) = "." /\ "." \notin Range(Tail(ext))
        ELSE ext = <<>>

\* stem + " " + i + ext for b cut after k characters
suffixed(b, k, i) ==
    SubSeq(b, 1, k) \o <<" ">> \o numberToString(i) \o SubSeq(b, k + 1, Len(b))

\* C20: for a requested name b and a parent p, uniqueName returns b itself
\* when no node under p has that name up to case; otherwise it returns
\* stem + " " + i + ext, ext being the part of b from its last "." (empty
\* when b has none), for the smallest i >= 2 whose name no node under p has
\* up to case.
C20_UniqueNameResult ==
    \A b \in BaseNames, p \in FolderArgs :
        LET r == uniqueName(store.nodes, b, p)
        IN  IF ~taken(store.nodes, p, b) THEN r = b
            ELSE \E k \in 0..Len(b), i \in 2..(MaxIds + 2) :
                    /\ cutsAtExtension(b, k)
                    /\ r = suffixed(b, k, i)
                    /\ ~taken(store.nodes, p, r)
                    /\ \A j \in 2..(i - 1) :
                           taken(store.nodes, p, suffixed(b, k, j))

\* "a.b.c" was created twice at the root, the second as "a.b 2.c", and a
\* third would be "a.b 3.c"
C20_Witness ==
    /\ last.op \in {"createFile", "createFolder"}
    /\ \E k \in DOMAIN store.nodes :
          /\ store.nodes[k].parentId = NULL
          /\ store.nodes[k].name = <<"a", ".", "b", " ", "2", ".", "c">>
    /\ uniqueName(store.nodes, <<"a", ".", "b", ".", "c">>, NULL)
          = <<"a", ".", "b", " ", "3", ".", "c">>

\* C21: at every operation boundary, after any sequence of sidebar actions
\* and snapshot imports, some File is active whenever nodes holds a File:
\* activeFileId is null only when the store has no File.
C21_SomeFileActiveWhenFilesExist ==
    FileIds # {} => store.activeFileId # NULL

\* C22: exporting the active File as markdown flushes the editor first:
\* content[active] becomes the editor's content and the exported body is
\* the markdown of the editor's content at that moment, whatever the last
\* debounced save stored; exporting a File that is not active offers the
\* markdown of its stored content and leaves the store as it was.
C22_ExportFlushesActiveFile ==
    [][\A id \in FileIds :
          ExportFile(id)
          => IF id = store.activeFileId
             THEN /\ getContent(store', id) = getEditorContent(editor)
                  /\ last'.ret = <<toMarkdown(getEditorContent(editor))>>
             ELSE /\ store' = store
                  /\ last'.ret = <<toMarkdown(getContent(store, id))>>]_vars

\* the active file was exported with the edit "y" no save had stored yet
C22_Witness ==
    /\ last = Op("exportFile", "flushed", <<markdownSerialize("y")>>)
    /\ editor = "y"
    /\ FileIds \ {store.activeFileId} # {}

\* C23: the sidebar's New File makes a File with empty content the active
\* file: afterwards activeFileId is the new File's id, the editor holds the
\* new File's empty content, and content[newFile] is still empty when a
\* save timer fires before the user has edited the new file.
C23_NewFileIsActiveAndEmpty ==
    /\ [][\A p \in FolderArgs :
             NewFile(p)
             => /\ store'.activeFileId = nextId
                /\ getContent(store', nextId) = ""
                /\ editor' = setEditorContent("")]_vars
    /\ [][last.op = "newFile" /\ SaveTimerFires
           => getContent(store', store.activeFileId) = ""]_vars

\* C24: a confirmed import of a valid snapshot replaces the filesystem and
\* reloads the editor: afterwards the store is the snapshot's store and the
\* editor holds the imported content of the imported active file, no longer
\* the document it held before.
C24_ImportReloadsEditor ==
    [][\A confirm \in BOOLEAN :
          (/\ ImportComplete(confirm)
           /\ importCase(importing, confirm) = "replaced"
           /\ jsonParse(importing).store.activeFileId
                 \in DOMAIN jsonParse(importing).store.content)
          => /\ store' = jsonParse(importing).store
             /\ editor' = setEditorContent(getContent(store', store'.activeFileId))]_vars

\* C25: in every state reached from a migrated store by createFile,
\* createFolder, renameNode, moveNode and deleteNode, no two nodes with the
\* same parentId have names that are equal up to case.
C25_SiblingNamesUniqueAfterMoves ==
    \A i, j \in DOMAIN store.nodes :
        (i # j /\ store.nodes[i].parentId = store.nodes[j].parentId)
        => toLowerCase(store.nodes[i].name) # toLowerCase(store.nodes[j].name)

\* a name of blanks only, the empty name included
onlyBlanks(n) == \A i \in 1..Len(n) : n[i] = " "

\* a name without the blanks before its first and after its last other character
stripped(n) ==
    LET inked == {i \in 1..Len(n) : n[i] # " "}
    IN  SubSeq(n, MinOf(inked), MaxOf(inked))

\* C26: renameNode(id, newName) changes nothing when id is not in nodes or
\* when newName is empty or only blanks; otherwise the node's name becomes
\* the trimmed name, or a suffixed form of it that no other sibling has
\* when another sibling has the trimmed name up to case (the node itself
\* not counting), and no other node, no other field of the node besides
\* updatedAt, no content and not activeFileId changes.
C26_RenameNodeEffect ==
    [][\A id \in KnownIds, n \in RenameArgs :
          CallRenameNode(id, n)
          => IF id \notin DOMAIN store.nodes \/ onlyBlanks(n)
             THEN store' = store
             ELSE LET others == Restrict(store.nodes, DOMAIN store.nodes \ {id})
                      p      == store.nodes[id].parentId
                      name   == store'.nodes[id].name
                  IN  /\ DOMAIN store'.nodes = DOMAIN store.nodes
                      /\ Restrict(store'.nodes, DOMAIN store.nodes \ {id}) = others
                      /\ store'.content = store.content
                      /\ store'.activeFileId = store.activeFileId
                      /\ \A field \in DOMAIN store.nodes[id] \ {"name", "updatedAt"} :
                            store'.nodes[id][field] = store.nodes[id][field]
                      /\ IF ~taken(others, p, stripped(n))
                         THEN name = stripped(n)
                         ELSE /\ ~taken(others, p, name)
                              /\ \E k \in 0..Len(stripped(n)), i \in 2..(MaxIds + 2) :
                                    /\ cutsAtExtension(stripped(n), k)
                                    /\ name = suffixed(stripped(n), k, i)]_vars

\* a node renamed to " A " next to "a" got the name "A 2"
C26_Witness ==
    /\ last = Op("renameNode", "disambiguated", <<>>)
    /\ \E k \in DOMAIN store.nodes : store.nodes[k].name = <<"A", " ", "2">>

\* C27: when initFilesystem completes with a non-null activeFileId, the
\* editor holds the active File's stored content, whatever that content is:
\* an empty active file leaves an empty editor, not the document the editor
\* was created with.
C27_StartupLoadsActiveFile ==
    [][(/\ Startup
        /\ last'.case # "threw"
        /\ store'.activeFileId # NULL)
       => editor' = setEditorContent(getContent(store', store'.activeFileId))]_vars

\* the last operation made a File active without loading it into the
\* editor, and the editor has not been edited since: what the editor holds
\* was loaded from, or edited in, another File
editorHoldsAnotherFile ==
    /\ store.activeFileId # NULL
    /\ \/ last.op = "newFile"
       \/ last.op = "delete" /\ last.case = "repaired"
       \/ last.op = "import" /\ last.case = "replaced"

\* C28: over every interleaving of edits, timer firings, switchFile, New
\* File, deletion of the active file and snapshot import, the save handler
\* writes to content[F] only a document loaded from F or edited while F was
\* active: a save that fires while the editor holds another File's
\* document leaves the active File's content as it was.
C28_NoCrossFileAttribution ==
    [][(SaveTimerFires /\ editorHoldsAnotherFile)
       => getContent(store', store.activeFileId)
            = getContent(store, store.activeFileId)]_vars

\* C29: in every state reached from a migrated store by createFile,
\* createFolder, renameNode, moveNode and deleteNode with any arguments, no
\* Folder is its own ancestor: following parentId from a Folder never comes
\* back to it.
C29_NoFolderIsItsOwnAncestor ==
    \A k \in DOMAIN store.nodes :
        store.nodes[k].type = "folder"
        => k \notin ancestorsOf(store.nodes, k, Cardinality(DOMAIN store.nodes))

\* C30: deleteNode(id) leaves every node that is neither id nor a
\* transitive descendant of id unchanged, together with its content entry;
\* it leaves activeFileId unchanged when the active file is not among the
\* removed ids; and for an id that is not in nodes it returns the empty
\* list and changes nothing.
C30_DeleteNodeFrame ==
    [][\A id \in KnownIds :
          CallDeleteNode(id)
          => IF id \notin DOMAIN store.nodes
             THEN last'.ret = <<>> /\ store' = store
             ELSE LET gone == {id} \cup transitiveDescendants(store.nodes, id)
                      kept == DOMAIN store.nodes \ gone
                  IN  /\ kept \subseteq DOMAIN store'.nodes
                      /\ Restrict(store'.nodes, kept) = Restrict(store.nodes, kept)
                      /\ \A k \in kept \cap DOMAIN store.content :
                            /\ k \in DOMAIN store'.content
                            /\ store'.content[k] = store.content[k]
                      /\ store.activeFileId \notin Range(last'.ret)
                            => store'.activeFileId = store.activeFileId]_vars

\* a folder went with a descendant while the active file and its content stayed
C30_Witness ==
    /\ last.op = "deleteNode"
    /\ last.case = "deleted"
    /\ Len(last.ret) >= 2
    /\ store.activeFileId \in FileIds
    /\ store.activeFileId \in DOMAIN store.content

=============================================================================
